---- MODULE Spec2Model ----
(***************************************************************************)
(* Capacity ledger, reservation lifecycle and expiry reclaimer of the      *)
(* event registration API (db.go, main.go, concurrent_test.go).            *)
(*                                                                         *)
(* The store is one SQLite database reached through a pool of exactly one  *)
(* connection (NewDB: SetMaxOpenConns(1)).  A sql.Tx keeps that connection *)
(* from BeginTx until Commit or Rollback; db.ExecContext takes it for one  *)
(* statement.  `events` and `tickets` are the committed tables, `tx` is    *)
(* the working copy seen by the statements of the open transaction.        *)
(* Every statement may fail with a store error (parameter `fail`).         *)
(* A returned call leaves its result in `ret` until the caller has taken   *)
(* it, which the caller does before the next statement reaches the store.  *)
(* Time is the store's clock datetime('now'), counted in minutes and       *)
(* observed at multiples of the hold duration.                             *)
(***************************************************************************)
EXTENDS Integers, Sequences, FiniteSets

\* ---------------------------------------------------------------- bounds
NumProcs == 3       \* concurrent callers (request goroutines)
MaxEvents == 2      \* rows of the events table
MaxSpots == 2       \* largest total_spots handed to CreateEvent
MaxEmails == 2      \* distinct user_email values
MaxKeys == 2        \* distinct idempotency_key values
MaxTime == 5        \* last value of the clock, in minutes
NumIPs == 1         \* client IP addresses
MaxPorts == 2       \* client ports (connections) per IP address
MaxClock == 15      \* last value of the server's clock, in seconds

\* ------------------------------------------------------- program constants
HoldDuration == 5   \* datetime('now', '+5 minutes')

RateLimit == 5      \* visitors[ip] >= 5
RateWindow == 10    \* time.Since(lastReset) > 10*time.Second

Procs == 1..NumProcs
Emails == 1..MaxEmails
Keys == 1..MaxKeys
Reclaimer == 0      \* the background worker goroutine, as a connection holder
Free == -1          \* the connection sits idle in the pool

\* ticket status values (CHECK (status IN (...)))
Reserved == "reserved"
Confirmed == "confirmed"
Cancelled == "cancelled"

\* results handed back to the caller
Ok == "nil"
ErrSoldOut == "ErrSoldOut"
ErrAlreadyRegistered == "ErrAlreadyRegistered"
ErrNotConfirmable == "ticket is expired, already confirmed, or does not exist"
ErrStore == "store error"
ErrCommit == "failed to commit tx"
ErrConstraint == "constraint failed"
ErrLegacySoldOut == "event is sold out or does not exist"
ErrLocked == "database table is locked"

\* X-Role header values; RoleNone is the absent header
RoleNone == ""
RoleUser == "user"
RoleOrganizer == "organizer"
RoleAdmin == "admin"
Roles == {RoleNone, RoleUser, RoleOrganizer, RoleAdmin}

\* the patterns registered on the mux
RouteCreateEvent == "POST /events"
RouteListEvents == "GET /events"
RouteRegister == "POST /events/{id}/register"
RouteConfirm == "POST /tickets/{id}/confirm"
Routes == {RouteCreateEvent, RouteListEvents, RouteRegister, RouteConfirm}

IPs == 1..NumIPs
Ports == 1..MaxPorts
\* r.RemoteAddr is "IP:port"
RemoteAddrs == IPs \X Ports

\* HTTP status codes written by the handlers and the middleware
StatusOK == 200
StatusCreated == 201
StatusUnauthorized == 401
StatusForbidden == 403
StatusConflict == 409
StatusTooManyRequests == 429
StatusInternalServerError == 500

VARIABLES
    events,         \* committed events table: Seq of [total_spots, available_spots], id = index
    tickets,        \* committed tickets table: Seq of ticket rows, id = index
    released,       \* history: per ticket id, committed capacity increments made for it
    now,            \* the store's clock
    conn,           \* holder of the single pooled connection: Free, a proc, or Reclaimer
    tx,             \* working copy of the open transaction
    call,           \* per caller: the RegisterForEvent call in progress
    rec,            \* local state of the ReclaimExpiredSeats cycle in progress
    ret,            \* the call that has just returned, with its arguments and result
    exited,         \* TestOptimisticConcurrency: goroutines that have finished (wg.Done)
    successCount,   \* TestOptimisticConcurrency: calls that returned a ticket id
    soldOutCount,   \* TestOptimisticConcurrency: calls that returned ErrSoldOut
    errorCount,     \* TestOptimisticConcurrency: calls that returned another error
    mainPc,         \* main: "serving", "shutdown", "closed", "returned" or "exited"
    workerCtxDone,  \* main: workerCancel() has run
    dbClosed,       \* main: db.Close() has run
    tickerC,        \* reclaim worker: ticks waiting in ticker.C (a channel of capacity 1)
    workerPc,       \* reclaim worker: "select", "call" or "stopped"
    cycles,         \* history: ReclaimExpiredSeats calls made and not yet returned
    atSignal,       \* history: the cycle in progress was in progress when the signal came
    legacyEvents,   \* event-api: committed events table: Seq of [capacity, available_spots]
    registrations,  \* event-api: committed registrations table: Seq of [event_id, user_email]
    writer,         \* event-api: the transaction holding the database's write lock, or Free
    legacyTx,       \* event-api: working copy of the writing transaction
    legacyCall,     \* event-api: per goroutine, the RegisterUser call in progress and its result
    legacySuccess,  \* TestConcurrentRegistration: successCount
    failureCount,   \* TestConcurrentRegistration: failureCount
    clock,          \* time.Now(), in seconds since the server was set up
    lastReset,      \* RateLimitMiddleware: start of the current window
    visitors,       \* RateLimitMiddleware: requests counted per remote address in the window
    passed,         \* history: per IP, when its latest requests were handed to the mux
    resp            \* the latest request and what the middleware chain did with it

store == <<events, tickets, released>>
test == <<exited, successCount, soldOutCount, errorCount>>
service == <<events, tickets, released, now, conn, tx, call, rec, ret,
            exited, successCount, soldOutCount, errorCount>>
life == <<mainPc, workerCtxDone, dbClosed, tickerC, workerPc, cycles, atSignal>>
legacy == <<legacyEvents, registrations, writer, legacyTx, legacyCall, legacySuccess,
            failureCount>>
web == <<clock, lastReset, visitors, passed, resp>>
vars == <<events, tickets, released, now, conn, tx, call, rec, ret,
          exited, successCount, soldOutCount, errorCount,
          mainPc, workerCtxDone, dbClosed, tickerC, workerPc, cycles, atSignal,
          legacyEvents, registrations, writer, legacyTx, legacyCall, legacySuccess,
          failureCount, clock, lastReset, visitors, passed, resp>>

NoTx == [events |-> <<>>, tickets |-> <<>>, released |-> <<>>]

Idle == [pc |-> "idle", eventID |-> 0, email |-> 0, key |-> 0, ticketID |-> 0]

\* selected and failed are history: the ticket ids the SELECT returned, and
\* those of them for which a statement of the loop body returned an error
RecIdle == [pc |-> "wait", expired |-> <<>>, count |-> 0, selected |-> {}, failed |-> {}]

NoRet == [op |-> "none", proc |-> 0, eventID |-> 0, ticketID |-> 0, email |-> 0,
          key |-> 0, res |-> Ok, val |-> 0, selected |-> {}, failed |-> {}]

\* ------------------------------------------------------------ SQL pieces

\* the capacity update without its condition on the counter
HasSpot_NoGuard(evs, e) == e \in DOMAIN evs

\* WHERE id = ? AND available_spots > 0
HasSpot(evs, e) == e \in DOMAIN evs /\ evs[e].available_spots > 0

\* SET available_spots = available_spots - 1
TakeSpot(evs, e) == [evs EXCEPT ![e].available_spots = @ - 1]

\* a capacity increment that raises the event's size with it
ReturnSpot_RaisesTotal(evs, e) ==
    IF e \in DOMAIN evs
      THEN [evs EXCEPT ![e].available_spots = @ + 1, ![e].total_spots = @ + 1]
      ELSE evs

\* UPDATE events SET available_spots = available_spots + 1 WHERE id = ?
ReturnSpot(evs, e) ==
    IF e \in DOMAIN evs THEN [evs EXCEPT ![e].available_spots = @ + 1] ELSE evs

\* a tickets table without its UNIQUE constraints
UniqueViolation_Missing(tks, e, m, k) == FALSE

\* a tickets table whose only UNIQUE constraint is the one on idempotency_key
UniqueViolation_KeyOnly(tks, e, m, k) ==
    \E i \in DOMAIN tks : tks[i].idempotency_key = k

\* a tickets table whose idempotency_key is unique per event only
UniqueViolation_KeyPerEvent(tks, e, m, k) ==
    \E i \in DOMAIN tks :
        \/ tks[i].event_id = e /\ tks[i].idempotency_key = k
        \/ tks[i].event_id = e /\ tks[i].user_email = m

\* idempotency_key TEXT UNIQUE, UNIQUE(event_id, user_email)
UniqueViolation(tks, e, m, k) ==
    \E i \in DOMAIN tks :
        \/ tks[i].idempotency_key = k
        \/ tks[i].event_id = e /\ tks[i].user_email = m

\* an insert whose expires_at is the time of the insert
NewTicket_NoHold(e, m, k, t) ==
    [event_id |-> e, user_email |-> m, idempotency_key |-> k,
     status |-> Reserved, expires_at |-> t]

\* VALUES (?, ?, ?, 'reserved', datetime('now', '+5 minutes'))
NewTicket(e, m, k, t) ==
    [event_id |-> e, user_email |-> m, idempotency_key |-> k,
     status |-> Reserved, expires_at |-> t + HoldDuration]

\* the confirm update without its condition on the holder
ConfirmGuard_AnyEmail(tks, id, m, t) ==
    /\ id \in DOMAIN tks
    /\ tks[id].status = Reserved
    /\ tks[id].expires_at > t

\* a confirm update that still accepts the ticket at its deadline
ConfirmGuard_UntilDeadline(tks, id, m, t) ==
    /\ id \in DOMAIN tks
    /\ tks[id].user_email = m
    /\ tks[id].status = Reserved
    /\ tks[id].expires_at >= t

\* the confirm update without its condition on the status
ConfirmGuard_AnyStatus(tks, id, m, t) ==
    /\ id \in DOMAIN tks
    /\ tks[id].user_email = m
    /\ tks[id].expires_at > t

\* WHERE id = ? AND user_email = ? AND status = 'reserved' AND expires_at > datetime('now')
ConfirmGuard(tks, id, m, t) ==
    /\ id \in DOMAIN tks
    /\ tks[id].user_email = m
    /\ tks[id].status = Reserved
    /\ tks[id].expires_at > t

\* the scan for expired tickets without its condition on the deadline
IsExpiredReserved_AnyTime(tk, t) == tk.status = Reserved

\* the scan for expired tickets with the wrong status in its condition
IsExpiredReserved_WrongStatus(tk, t) == tk.status = Cancelled /\ tk.expires_at <= t

\* the scan for expired tickets without its condition on the status
IsExpiredReserved_AnyStatus(tk, t) == tk.expires_at <= t

\* WHERE status = 'reserved' AND expires_at <= datetime('now')
IsExpiredReserved(tk, t) == tk.status = Reserved /\ tk.expires_at <= t

\* SELECT id, event_id FROM tickets WHERE ...   (rows in id order)
RECURSIVE ScanExpired(_, _, _)
ScanExpired(tks, i, t) ==
    IF i > Len(tks) THEN <<>>
    ELSE (IF IsExpiredReserved(tks[i], t)
          THEN <<[ticketID |-> i, eventID |-> tks[i].event_id]>>
          ELSE <<>>) \o ScanExpired(tks, i + 1, t)

\* UPDATE tickets SET status = 'cancelled' WHERE id = ?
CancelTicket(tks, id) ==
    IF id \in DOMAIN tks THEN [tks EXCEPT ![id].status = Cancelled] ELSE tks

\* CHECK (available_spots >= 0) on the inserted row
CheckAvailable(n) == n >= 0

\* main has started the worker and the server and waits on <-quit
LifeInit ==
    /\ mainPc = "serving"
    /\ workerCtxDone = FALSE
    /\ dbClosed = FALSE
    /\ tickerC = 0
    /\ workerPc = "select"
    /\ cycles = 0
    /\ atSignal = FALSE

\* event-api: a RegisterUser call that has not started
LegacyIdle == [pc |-> "idle", res |-> Ok]

\* event-api: InitDB has created the empty tables
LegacyInit ==
    /\ legacyEvents = <<>>
    /\ registrations = <<>>
    /\ writer = Free
    /\ legacyTx = NoTx
    /\ legacyCall = [p \in Procs |-> LegacyIdle]
    /\ legacySuccess = 0
    /\ failureCount = 0

\* no request has been answered
NoResp == [route |-> "none", role |-> RoleNone, status |-> 0, handler |-> "none"]

\* RateLimitMiddleware(handler) has been set up
WebInit ==
    /\ clock = 0
    /\ lastReset = 0
    /\ visitors = [a \in RemoteAddrs |-> 0]
    /\ passed = [ip \in IPs |-> <<>>]
    /\ resp = NoResp

\* ---------------------------------------------------------------- Init
Init ==
    /\ events = <<>>
    /\ tickets = <<>>
    /\ released = <<>>
    /\ now = 0
    /\ conn = Free
    /\ tx = NoTx
    /\ call = [p \in Procs |-> Idle]
    /\ rec = RecIdle
    /\ ret = NoRet
    /\ exited = {}
    /\ successCount = 0
    /\ soldOutCount = 0
    /\ errorCount = 0
    /\ LifeInit
    /\ LegacyInit
    /\ WebInit

\* the clock of the store advances
Tick ==
    /\ ret = NoRet
    /\ now + HoldDuration <= MaxTime
    /\ now' = now + HoldDuration
    /\ UNCHANGED <<store, conn, tx, call, rec, ret, test, life, legacy, web>>

\* the caller takes the returned value
Return ==
    /\ ret # NoRet
    /\ ret' = NoRet
    /\ UNCHANGED <<store, now, conn, tx, call, rec, test, life, legacy, web>>

\* ------------------------------------------------------------ CreateEvent
CreateEvent(totalSpots, fail) ==
    /\ ret = NoRet
    /\ conn = Free
    /\ Len(events) < MaxEvents
    /\ LET r(res, id) == [NoRet EXCEPT !.op = "create", !.res = res, !.eventID = id,
                                       !.val = totalSpots]
       IN  IF fail
           THEN /\ ret' = r(ErrStore, 0)
                /\ UNCHANGED events
           ELSE IF ~CheckAvailable(totalSpots)
           THEN /\ ret' = r(ErrConstraint, 0)
                /\ UNCHANGED events
           ELSE /\ events' = Append(events, [total_spots |-> totalSpots,
                                             available_spots |-> totalSpots])
                /\ ret' = r(Ok, Len(events) + 1)
    /\ UNCHANGED <<tickets, released, now, conn, tx, call, rec, test, life, legacy, web>>

\* ------------------------------------------------------- RegisterForEvent
RegisterRet(p, c, res) ==
    [NoRet EXCEPT !.op = "register", !.proc = p, !.eventID = c.eventID, !.email = c.email,
                  !.key = c.key, !.res = res,
                  !.ticketID = IF res = Ok THEN c.ticketID ELSE 0]

\* an error return that commits what the transaction has done so far
RegisterAbort_KeepsDecrement(p, res) ==
    /\ ret' = RegisterRet(p, call[p], res)
    /\ call' = [call EXCEPT ![p] = Idle]
    /\ conn' = Free
    /\ tx' = NoTx
    /\ events' = tx.events
    /\ UNCHANGED <<tickets, released>>

\* an error return that forgets the deferred tx.Rollback()
RegisterAbort_KeepsConn(p, res) ==
    /\ ret' = RegisterRet(p, call[p], res)
    /\ call' = [call EXCEPT ![p] = Idle]
    /\ UNCHANGED <<conn, tx, store>>

\* return of (0, res) with the deferred tx.Rollback()
RegisterAbort(p, res) ==
    /\ ret' = RegisterRet(p, call[p], res)
    /\ call' = [call EXCEPT ![p] = Idle]
    /\ conn' = Free
    /\ tx' = NoTx
    /\ UNCHANGED store

RegisterBeginTx(p, e, m, k, fail) ==
    /\ ret = NoRet
    /\ call[p].pc = "idle"
    /\ conn = Free
    /\ LET c == [Idle EXCEPT !.pc = "update", !.eventID = e, !.email = m, !.key = k]
       IN  IF fail
           THEN /\ ret' = RegisterRet(p, c, ErrStore)
                /\ UNCHANGED <<conn, tx, call>>
           ELSE /\ call' = [call EXCEPT ![p] = c]
                /\ conn' = p
                /\ tx' = [events |-> events, tickets |-> tickets, released |-> released]
                /\ UNCHANGED ret
    /\ UNCHANGED <<store, now, rec, test, life, legacy, web>>

\* a capacity update that looks the event up first and reports a missing
\* event with an error of its own
RegisterUpdateEvent_MissingIsError(p, fail) ==
    /\ call[p].pc = "update"
    /\ conn = p
    /\ IF fail \/ call[p].eventID \notin DOMAIN tx.events
       THEN RegisterAbort(p, ErrStore)
       ELSE IF ~HasSpot(tx.events, call[p].eventID)
       THEN RegisterAbort(p, ErrSoldOut)
       ELSE /\ tx' = [tx EXCEPT !.events = TakeSpot(tx.events, call[p].eventID)]
            /\ call' = [call EXCEPT ![p].pc = "insert"]
            /\ UNCHANGED <<store, conn, ret>>
    /\ UNCHANGED <<now, rec, test, life, legacy, web>>

RegisterUpdateEvent(p, fail) ==
    /\ call[p].pc = "update"
    /\ conn = p
    /\ IF fail
       THEN RegisterAbort(p, ErrStore)
       ELSE IF ~HasSpot(tx.events, call[p].eventID)
       THEN RegisterAbort(p, ErrSoldOut)
       ELSE IF ~CheckAvailable(TakeSpot(tx.events, call[p].eventID)[call[p].eventID].available_spots)
       THEN RegisterAbort(p, ErrStore)
       ELSE /\ tx' = [tx EXCEPT !.events = TakeSpot(tx.events, call[p].eventID)]
            /\ call' = [call EXCEPT ![p].pc = "insert"]
            /\ UNCHANGED <<store, conn, ret>>
    /\ UNCHANGED <<now, rec, test, life, legacy, web>>

RegisterInsertTicket(p, fail) ==
    /\ call[p].pc = "insert"
    /\ conn = p
    /\ LET c == call[p] IN
       IF fail \/ UniqueViolation(tx.tickets, c.eventID, c.email, c.key)
       THEN RegisterAbort(p, ErrAlreadyRegistered)
       ELSE /\ tx' = [tx EXCEPT
                        !.tickets = Append(tx.tickets, NewTicket(c.eventID, c.email, c.key, now)),
                        !.released = Append(tx.released, 0)]
            /\ call' = [call EXCEPT ![p].pc = "commit", ![p].ticketID = Len(tx.tickets) + 1]
            /\ UNCHANGED <<store, conn, ret>>
    /\ UNCHANGED <<now, rec, test, life, legacy, web>>

RegisterCommit(p, fail) ==
    /\ call[p].pc = "commit"
    /\ conn = p
    /\ IF fail
       THEN RegisterAbort(p, ErrCommit)
       ELSE /\ events' = tx.events
            /\ tickets' = tx.tickets
            /\ released' = tx.released
            /\ conn' = Free
            /\ tx' = NoTx
            /\ ret' = RegisterRet(p, call[p], Ok)
            /\ call' = [call EXCEPT ![p] = Idle]
    /\ UNCHANGED <<now, rec, test, life, legacy, web>>

\* ----------------------------------------------------- ConfirmReservation
ConfirmReservation(id, m, fail) ==
    /\ ret = NoRet
    /\ conn = Free
    /\ LET r(res) == [NoRet EXCEPT !.op = "confirm", !.ticketID = id, !.email = m, !.res = res]
       IN  IF fail
           THEN /\ ret' = r(ErrStore)
                /\ UNCHANGED tickets
           ELSE IF ConfirmGuard(tickets, id, m, now)
           THEN /\ tickets' = [tickets EXCEPT ![id].status = Confirmed]
                /\ ret' = r(Ok)
           ELSE /\ ret' = r(ErrNotConfirmable)
                /\ UNCHANGED tickets
    /\ UNCHANGED <<events, released, now, conn, tx, call, rec, test, life, legacy, web>>

\* ---------------------------------------------------- ReclaimExpiredSeats
ReclaimRet(res, n) == [NoRet EXCEPT !.op = "reclaim", !.res = res, !.val = n]

\* return of (0, err) with the deferred tx.Rollback()
ReclaimAbort ==
    /\ rec' = RecIdle
    /\ ret' = ReclaimRet(ErrStore, 0)
    /\ conn' = Free
    /\ tx' = NoTx
    /\ UNCHANGED store

ReclaimBeginTx(fail) ==
    /\ ret = NoRet
    /\ rec.pc = "wait"
    /\ conn = Free
    /\ IF fail
       THEN /\ ret' = ReclaimRet(ErrStore, 0)
            /\ UNCHANGED <<conn, tx, rec>>
       ELSE /\ rec' = [RecIdle EXCEPT !.pc = "select"]
            /\ conn' = Reclaimer
            /\ tx' = [events |-> events, tickets |-> tickets, released |-> released]
            /\ UNCHANGED ret
    /\ UNCHANGED <<store, now, call, test, life, legacy, web>>

ReclaimSelect(fail) ==
    /\ rec.pc = "select"
    /\ conn = Reclaimer
    /\ IF fail
       THEN ReclaimAbort
       ELSE /\ LET found == ScanExpired(tx.tickets, 1, now)
               IN  rec' = [rec EXCEPT !.expired = found,
                                      !.selected = {found[i].ticketID : i \in DOMAIN found},
                                      !.pc = IF found = <<>> THEN "commit" ELSE "cancel"]
            /\ UNCHANGED <<store, conn, tx, ret>>
    /\ UNCHANGED <<now, call, test, life, legacy, web>>

\* a loop that is left after its first candidate
NextCandidate_Stops(r) == [r EXCEPT !.expired = <<>>, !.pc = "commit"]

\* `continue`, or the end of the loop body: on to the next candidate
NextCandidate(r) ==
    [r EXCEPT !.expired = Tail(r.expired),
              !.pc = IF Len(r.expired) = 1 THEN "commit" ELSE "cancel"]

ReclaimCancelTicket(fail) ==
    /\ rec.pc = "cancel"
    /\ conn = Reclaimer
    /\ IF fail
       THEN /\ rec' = [NextCandidate(rec) EXCEPT !.failed = @ \cup {Head(rec.expired).ticketID}]
            /\ UNCHANGED tx
       ELSE /\ tx' = [tx EXCEPT !.tickets = CancelTicket(tx.tickets, Head(rec.expired).ticketID)]
            /\ rec' = [rec EXCEPT !.pc = "incr"]
    /\ UNCHANGED <<store, now, conn, call, ret, test, life, legacy, web>>

ReclaimReturnSpot(fail) ==
    /\ rec.pc = "incr"
    /\ conn = Reclaimer
    /\ IF fail
       THEN /\ rec' = [NextCandidate(rec) EXCEPT !.failed = @ \cup {Head(rec.expired).ticketID}]
            /\ UNCHANGED tx
       ELSE /\ tx' = [tx EXCEPT !.events = ReturnSpot(tx.events, Head(rec.expired).eventID),
                                !.released[Head(rec.expired).ticketID] = @ + 1]
            /\ rec' = [NextCandidate(rec) EXCEPT !.count = @ + 1]
    /\ UNCHANGED <<store, now, conn, call, ret, test, life, legacy, web>>

\* return reclaimedCount, tx.Commit(): a failed commit returns the count
\* beside the error, and the deferred tx.Rollback() undoes the cycle
ReclaimCommit(fail) ==
    /\ rec.pc = "commit"
    /\ conn = Reclaimer
    /\ IF fail
       THEN /\ rec' = RecIdle
            /\ ret' = ReclaimRet(ErrStore, rec.count)
            /\ conn' = Free
            /\ tx' = NoTx
            /\ UNCHANGED store
       ELSE /\ events' = tx.events
            /\ tickets' = tx.tickets
            /\ released' = tx.released
            /\ conn' = Free
            /\ tx' = NoTx
            /\ rec' = RecIdle
            /\ ret' = [ReclaimRet(Ok, rec.count) EXCEPT !.selected = rec.selected,
                                                        !.failed = rec.failed]
    /\ UNCHANGED <<now, call, test, life, legacy, web>>

\* ------------------------------------------------------------------ Next
\* every operation of the service; any statement may fail in the store
Next ==
    \/ Tick
    \/ Return
    \/ \E n \in -1..MaxSpots, fail \in BOOLEAN : CreateEvent(n, fail)
    \/ \E p \in Procs, e \in 1..MaxEvents, m \in Emails, k \in Keys, fail \in BOOLEAN :
            RegisterBeginTx(p, e, m, k, fail)
    \/ \E p \in Procs, fail \in BOOLEAN : RegisterUpdateEvent(p, fail)
    \/ \E p \in Procs, fail \in BOOLEAN : RegisterInsertTicket(p, fail)
    \/ \E p \in Procs, fail \in BOOLEAN : RegisterCommit(p, fail)
    \/ \E id \in 1..MaxKeys, m \in Emails, fail \in BOOLEAN : ConfirmReservation(id, m, fail)
    \/ \E fail \in BOOLEAN : ReclaimBeginTx(fail)
    \/ \E fail \in BOOLEAN : ReclaimSelect(fail)
    \/ \E fail \in BOOLEAN : ReclaimCancelTicket(fail)
    \/ \E fail \in BOOLEAN : ReclaimReturnSpot(fail)
    \/ \E fail \in BOOLEAN : ReclaimCommit(fail)

Spec == Init /\ [][Next]_vars

\* the same operations over a store in which no statement fails
NoFaultNext ==
    \/ Tick
    \/ Return
    \/ \E n \in -1..MaxSpots : CreateEvent(n, FALSE)
    \/ \E p \in Procs, e \in 1..MaxEvents, m \in Emails, k \in Keys :
            RegisterBeginTx(p, e, m, k, FALSE)
    \/ \E p \in Procs : RegisterUpdateEvent(p, FALSE)
    \/ \E p \in Procs : RegisterInsertTicket(p, FALSE)
    \/ \E p \in Procs : RegisterCommit(p, FALSE)
    \/ \E id \in 1..MaxKeys, m \in Emails : ConfirmReservation(id, m, FALSE)
    \/ ReclaimBeginTx(FALSE)
    \/ ReclaimSelect(FALSE)
    \/ ReclaimCancelTicket(FALSE)
    \/ ReclaimReturnSpot(FALSE)
    \/ ReclaimCommit(FALSE)

NoFaultSpec == Init /\ [][NoFaultNext]_vars

\* ------------------------------------------------ TestOptimisticConcurrency
\* db.CreateEvent(ctx, "The Big GopherCon", totalCapacity) has returned
TestInit ==
    /\ \E c \in 1..MaxSpots : events = <<[total_spots |-> c, available_spots |-> c]>>
    /\ tickets = <<>>
    /\ released = <<>>
    /\ now = 0
    /\ conn = Free
    /\ tx = NoTx
    /\ call = [p \in Procs |-> Idle]
    /\ rec = RecIdle
    /\ ret = NoRet
    /\ exited = {}
    /\ successCount = 0
    /\ soldOutCount = 0
    /\ errorCount = 0
    /\ LifeInit
    /\ LegacyInit
    /\ WebInit

\* the goroutine adds its result to one of the counters and is done
TestCount ==
    /\ ret.op = "register"
    /\ exited' = exited \cup {ret.proc}
    /\ successCount' = successCount + (IF ret.res = Ok THEN 1 ELSE 0)
    /\ soldOutCount' = soldOutCount + (IF ret.res = ErrSoldOut THEN 1 ELSE 0)
    /\ errorCount' = errorCount + (IF ret.res \notin {Ok, ErrSoldOut} THEN 1 ELSE 0)
    /\ ret' = NoRet
    /\ UNCHANGED <<store, now, conn, tx, call, rec, life, legacy, web>>

\* goroutine p calls RegisterForEvent(ctx, event.ID, email_p, key_p), once
TestNext ==
    \/ Tick
    \/ \E p \in Procs \ exited : RegisterBeginTx(p, 1, p, p, FALSE)
    \/ \E p \in Procs : RegisterUpdateEvent(p, FALSE)
    \/ \E p \in Procs : RegisterInsertTicket(p, FALSE)
    \/ \E p \in Procs : RegisterCommit(p, FALSE)
    \/ TestCount

TestSpec == TestInit /\ [][TestNext]_vars

\* the same harness with every goroutine repeating one request: same event,
\* same email, same idempotency key
RetryNext ==
    \/ Tick
    \/ \E p \in Procs \ exited : RegisterBeginTx(p, 1, 1, 1, FALSE)
    \/ \E p \in Procs : RegisterUpdateEvent(p, FALSE)
    \/ \E p \in Procs : RegisterInsertTicket(p, FALSE)
    \/ \E p \in Procs : RegisterCommit(p, FALSE)
    \/ TestCount

RetrySpec == TestInit /\ [][RetryNext]_vars

\* every launched call has returned and has been counted
Quiescent == ret = NoRet /\ \A p \in Procs : call[p].pc = "idle"

\* -------------------------------------------- all callers of the one connection
\* ListEvents: db.QueryContext takes the connection for the SELECT and the
\* deferred rows.Close() gives it back on every return
ListEvents(fail) ==
    /\ ret = NoRet
    /\ conn = Free
    /\ ret' = [NoRet EXCEPT !.op = "list", !.res = IF fail THEN ErrStore ELSE Ok,
                            !.val = IF fail THEN 0 ELSE Len(events)]
    /\ UNCHANGED <<store, now, conn, tx, call, rec, test, life, legacy, web>>

\* every goroutine p issues one RegisterForEvent while ConfirmReservation,
\* ListEvents and ReclaimExpiredSeats calls are issued beside them, over a
\* store whose statements may fail
PoolNext ==
    \/ Tick
    \/ ret.op # "register" /\ Return
    \/ \E p \in Procs \ exited, fail \in BOOLEAN : RegisterBeginTx(p, 1, p, p, fail)
    \/ \E p \in Procs, fail \in BOOLEAN : RegisterUpdateEvent(p, fail)
    \/ \E p \in Procs, fail \in BOOLEAN : RegisterInsertTicket(p, fail)
    \/ \E p \in Procs, fail \in BOOLEAN : RegisterCommit(p, fail)
    \/ TestCount
    \/ \E id \in 1..MaxKeys, m \in Emails, fail \in BOOLEAN : ConfirmReservation(id, m, fail)
    \/ \E fail \in BOOLEAN : ListEvents(fail)
    \/ \E fail \in BOOLEAN : ReclaimBeginTx(fail)
    \/ \E fail \in BOOLEAN : ReclaimSelect(fail)
    \/ \E fail \in BOOLEAN : ReclaimCancelTicket(fail)
    \/ \E fail \in BOOLEAN : ReclaimReturnSpot(fail)
    \/ \E fail \in BOOLEAN : ReclaimCommit(fail)

\* Scheduling: a goroutine that can take its next step does so (the Go
\* scheduler), and a call waiting in BeginTx for the pooled connection gets it
\* after finitely many releases (database/sql hands a released connection to
\* a pending request).
PoolFairness ==
    /\ WF_vars(TestCount)
    /\ WF_vars(ret.op # "register" /\ Return)
    /\ \A p \in Procs :
            /\ SF_vars(p \notin exited /\ \E fail \in BOOLEAN : RegisterBeginTx(p, 1, p, p, fail))
            /\ WF_vars(\E fail \in BOOLEAN : RegisterUpdateEvent(p, fail))
            /\ WF_vars(\E fail \in BOOLEAN : RegisterInsertTicket(p, fail))
            /\ WF_vars(\E fail \in BOOLEAN : RegisterCommit(p, fail))
    /\ WF_vars(\E fail \in BOOLEAN : ReclaimSelect(fail))
    /\ WF_vars(\E fail \in BOOLEAN : ReclaimCancelTicket(fail))
    /\ WF_vars(\E fail \in BOOLEAN : ReclaimReturnSpot(fail))
    /\ WF_vars(\E fail \in BOOLEAN : ReclaimCommit(fail))

PoolSpec == TestInit /\ [][PoolNext]_vars /\ PoolFairness

\* ------------------------------------------------- event-api (legacy module)
\* The legacy module opens its database with sql.Open alone: the pool has no
\* connection limit, every transaction runs on a connection of its own, and
\* the connections share one in-memory database ("file::memory:?cache=shared").
\* A statement that needs the write lock while another transaction holds it
\* either waits for the lock or returns the store's lock error.

\* TestConcurrentRegistration: db.CreateEvent(event) with Capacity c has returned
LegacyTestInit ==
    /\ events = <<>>
    /\ tickets = <<>>
    /\ released = <<>>
    /\ now = 0
    /\ conn = Free
    /\ tx = NoTx
    /\ call = [p \in Procs |-> Idle]
    /\ rec = RecIdle
    /\ ret = NoRet
    /\ exited = {}
    /\ successCount = 0
    /\ soldOutCount = 0
    /\ errorCount = 0
    /\ LifeInit
    /\ WebInit
    /\ \E c \in 1..MaxSpots : legacyEvents = <<[capacity |-> c, available_spots |-> c]>>
    /\ registrations = <<>>
    /\ writer = Free
    /\ legacyTx = NoTx
    /\ legacyCall = [p \in Procs |-> LegacyIdle]
    /\ legacySuccess = 0
    /\ failureCount = 0

\* a RegisterUser call returns res; tx.Rollback() gives the write lock back
RegisterUserReturn(p, res) ==
    /\ legacyCall' = [legacyCall EXCEPT ![p] = [pc |-> "returned", res |-> res]]
    /\ writer' = IF writer = p THEN Free ELSE writer
    /\ legacyTx' = IF writer = p THEN NoTx ELSE legacyTx

\* tx, err := DB.Begin(): a deferred transaction on a connection of its own
RegisterUserBegin(p) ==
    /\ legacyCall[p].pc = "idle"
    /\ legacyCall' = [legacyCall EXCEPT ![p].pc = "update"]
    /\ UNCHANGED <<service, life, web, legacyEvents, registrations, writer, legacyTx,
                   legacySuccess, failureCount>>

\* UPDATE events SET available_spots = available_spots - 1
\*     WHERE id = ? AND available_spots > 0, then res.RowsAffected()
RegisterUserUpdate(p, e, locked) ==
    /\ legacyCall[p].pc = "update"
    /\ locked = (writer # Free)
    /\ IF locked
          THEN RegisterUserReturn(p, ErrLocked)
          ELSE IF HasSpot(legacyEvents, e)
                 THEN /\ writer' = p
                      /\ legacyTx' = [events |-> TakeSpot(legacyEvents, e),
                                      tickets |-> registrations, released |-> <<>>]
                      /\ legacyCall' = [legacyCall EXCEPT ![p].pc = "insert"]
                 ELSE RegisterUserReturn(p, ErrLegacySoldOut)
    /\ UNCHANGED <<service, life, web, legacyEvents, registrations, legacySuccess,
                   failureCount>>

\* tx.Prepare("INSERT INTO registrations(event_id, user_name, user_email) ...")
\* and stmt.Exec
RegisterUserInsert(p, e, m) ==
    /\ legacyCall[p].pc = "insert"
    /\ legacyTx' = [legacyTx EXCEPT
            !.tickets = Append(@, [event_id |-> e, user_email |-> m])]
    /\ legacyCall' = [legacyCall EXCEPT ![p].pc = "commit"]
    /\ UNCHANGED <<service, life, web, legacyEvents, registrations, writer,
                   legacySuccess, failureCount>>

\* tx.Commit()
RegisterUserCommit(p) ==
    /\ legacyCall[p].pc = "commit"
    /\ legacyEvents' = legacyTx.events
    /\ registrations' = legacyTx.tickets
    /\ writer' = Free
    /\ legacyTx' = NoTx
    /\ legacyCall' = [legacyCall EXCEPT ![p] = [pc |-> "returned", res |-> Ok]]
    /\ UNCHANGED <<service, life, web, legacySuccess, failureCount>>

\* the goroutine counts its result under the test's mutex and is done
LegacyCount(p) ==
    /\ legacyCall[p].pc = "returned"
    /\ legacySuccess' = legacySuccess + (IF legacyCall[p].res = Ok THEN 1 ELSE 0)
    /\ failureCount' = failureCount + (IF legacyCall[p].res = Ok THEN 0 ELSE 1)
    /\ legacyCall' = [legacyCall EXCEPT ![p].pc = "done"]
    /\ UNCHANGED <<service, life, web, legacyEvents, registrations, writer, legacyTx>>

\* goroutine p calls db.RegisterUser(reg) for the event, as user p, once
LegacyNext ==
    \/ \E p \in Procs : RegisterUserBegin(p)
    \/ \E p \in Procs, locked \in BOOLEAN : RegisterUserUpdate(p, 1, locked)
    \/ \E p \in Procs : RegisterUserInsert(p, 1, p)
    \/ \E p \in Procs : RegisterUserCommit(p)
    \/ \E p \in Procs : LegacyCount(p)

LegacySpec == LegacyTestInit /\ [][LegacyNext]_vars

\* ---------------------------------------------------------------- handlers
\* HandleRegister: the status written for the result of RegisterForEvent
HandleRegisterStatus(res) ==
    IF res = Ok THEN StatusCreated
    ELSE IF res = ErrSoldOut THEN StatusConflict
    ELSE IF res = ErrAlreadyRegistered THEN StatusConflict
    ELSE StatusInternalServerError

\* HandleConfirm: the status written for the result of ConfirmReservation
HandleConfirmStatus(res) ==
    IF res = Ok THEN StatusOK ELSE StatusConflict

\* -------------------------------------------------- middleware and routes
\* what RBACMiddleware(requiredRole)(next) does with a request whose X-Role
\* header is role: the status it writes, or the handler it passes the request to
RBACMiddleware(requiredRole, role, next) ==
    IF role = RoleNone
      THEN [status |-> StatusUnauthorized, handler |-> "none"]
      ELSE IF role # requiredRole /\ role # RoleAdmin
             THEN [status |-> StatusForbidden, handler |-> "none"]
             ELSE [status |-> 0, handler |-> next]

\* the mux: the handler chain registered for each pattern
Mux(route, role) ==
    CASE route = RouteCreateEvent -> RBACMiddleware(RoleOrganizer, role, "HandleCreateEvent")
      [] route = RouteListEvents  -> [status |-> 0, handler |-> "HandleListEvents"]
      [] route = RouteRegister    -> RBACMiddleware(RoleUser, role, "HandleRegister")
      [] route = RouteConfirm     -> RBACMiddleware(RoleUser, role, "HandleConfirm")

\* the pass times of an IP that are less than one window old at time t,
\* the latest RateLimit + 1 of them
Recent(times, t) ==
    LET r == SelectSeq(times, LAMBDA x : x > t - RateWindow)
    IN  IF Len(r) > RateLimit + 1 THEN SubSeq(r, Len(r) - RateLimit, Len(r)) ELSE r

\* the server's clock advances; it is observed every half window
ClockTick ==
    /\ clock + RateWindow \div 2 <= MaxClock
    /\ clock' = clock + RateWindow \div 2
    /\ passed' = [ip \in IPs |-> Recent(passed[ip], clock + RateWindow \div 2)]
    /\ UNCHANGED <<service, life, legacy, lastReset, visitors, resp>>

\* a request arrives from ip:port: RateLimitMiddleware, under its mutex,
\* starts a new window when the current one is over and counts the request
\* of the remote address or answers 429; a counted request goes on to the mux
ServeHTTP(ip, port, route, role) ==
    LET reset == clock - lastReset > RateWindow
        vis == IF reset THEN [a \in RemoteAddrs |-> 0] ELSE visitors
        addr == <<ip, port>>
    IN  /\ lastReset' = IF reset THEN clock ELSE lastReset
        /\ IF vis[addr] >= RateLimit
              THEN /\ visitors' = vis
                   /\ passed' = passed
                   /\ resp' = [route |-> route, role |-> role,
                               status |-> StatusTooManyRequests, handler |-> "none"]
              ELSE /\ visitors' = [vis EXCEPT ![addr] = @ + 1]
                   /\ passed' = [passed EXCEPT ![ip] = Recent(Append(@, clock), clock)]
                   /\ resp' = [route |-> route, role |-> role,
                               status |-> Mux(route, role).status,
                               handler |-> Mux(route, role).handler]
        /\ UNCHANGED <<service, life, legacy, clock>>

WebNext ==
    \/ ClockTick
    \/ \E ip \in IPs, port \in Ports, route \in Routes, role \in Roles :
            ServeHTTP(ip, port, route, role)

WebSpec == Init /\ [][WebNext]_vars

\* --------------------------------------------------- main and its worker
\* a worker that takes a tick wherever it is
WorkerReady_Always(pc) == TRUE

\* the worker goroutine is at the select statement of its loop
WorkerReady(pc) == pc = "select"

\* the process has not ended
Alive == mainPc # "exited"

\* the runtime sends a tick on ticker.C; a tick that finds the channel full is dropped
TickerFire ==
    /\ Alive
    /\ workerPc # "stopped"
    /\ tickerC = 0
    /\ tickerC' = 1
    /\ UNCHANGED <<service, legacy, web, mainPc, workerCtxDone, dbClosed, workerPc, cycles, atSignal>>

\* case <-ticker.C: the worker calls db.ReclaimExpiredSeats(context.Background())
WorkerTick ==
    /\ Alive
    /\ WorkerReady(workerPc)
    /\ tickerC = 1
    /\ tickerC' = 0
    /\ workerPc' = "call"
    /\ cycles' = cycles + 1
    /\ UNCHANGED <<service, legacy, web, mainPc, workerCtxDone, dbClosed, atSignal>>

\* case <-workerCtx.Done(): return, and the deferred ticker.Stop()
WorkerStop ==
    /\ Alive
    /\ workerPc = "select"
    /\ workerCtxDone
    /\ workerPc' = "stopped"
    /\ UNCHANGED <<service, legacy, web, mainPc, workerCtxDone, dbClosed, tickerC, cycles, atSignal>>

\* ReclaimExpiredSeats has returned: the worker logs the result and loops
WorkerReturn ==
    /\ Alive
    /\ ret.op = "reclaim"
    /\ ret' = NoRet
    /\ workerPc' = "select"
    /\ cycles' = cycles - 1
    /\ atSignal' = FALSE
    /\ UNCHANGED <<store, now, conn, tx, call, rec, test, legacy, web,
                   mainPc, workerCtxDone, dbClosed, tickerC>>

\* <-quit: SIGINT or SIGTERM has arrived; main calls server.Shutdown
Signal ==
    /\ mainPc = "serving"
    /\ mainPc' = "shutdown"
    /\ atSignal' = (conn = Reclaimer)
    /\ UNCHANGED <<service, legacy, web, workerCtxDone, dbClosed, tickerC, workerPc, cycles>>

\* server.Shutdown(ctxShutdown) returns: no request is left, or the 5 seconds are over
ServerShutdown ==
    /\ mainPc = "shutdown"
    /\ mainPc' = "closing"
    /\ UNCHANGED <<service, legacy, web, workerCtxDone, dbClosed, tickerC, workerPc, cycles, atSignal>>

\* db.Close(): no new transaction can begin; it does not wait for the worker
DBClose ==
    /\ mainPc = "closing"
    /\ mainPc' = "closed"
    /\ dbClosed' = TRUE
    /\ UNCHANGED <<service, legacy, web, workerCtxDone, tickerC, workerPc, cycles, atSignal>>

\* main returns: the deferred workerCancel() runs
MainReturn ==
    /\ mainPc = "closed"
    /\ mainPc' = "returned"
    /\ workerCtxDone' = TRUE
    /\ UNCHANGED <<service, legacy, web, dbClosed, tickerC, workerPc, cycles, atSignal>>

\* the process ends, and every goroutine with it
ProcessExit ==
    /\ mainPc = "returned"
    /\ mainPc' = "exited"
    /\ UNCHANGED <<service, legacy, web, workerCtxDone, dbClosed, tickerC, workerPc, cycles, atSignal>>

\* the service from an organizer's first event to exit: registrations while
\* the server listens (each user with a key of their own), the worker's
\* cycles (any statement may fail, and BeginTx fails on a closed handle),
\* and main's shutdown sequence
MainNext ==
    \/ Alive /\ Tick
    \/ Alive /\ ret.op # "reclaim" /\ Return
    \/ mainPc = "serving" /\ \E m \in Emails : RegisterBeginTx(1, 1, m, m, FALSE)
    \/ Alive /\ RegisterUpdateEvent(1, FALSE)
    \/ Alive /\ RegisterInsertTicket(1, FALSE)
    \/ Alive /\ RegisterCommit(1, FALSE)
    \/ TickerFire
    \/ WorkerTick
    \/ WorkerStop
    \/ WorkerReturn
    \/ Alive /\ workerPc = "call" /\ \E fail \in BOOLEAN : (dbClosed => fail) /\ ReclaimBeginTx(fail)
    \/ Alive /\ \E fail \in BOOLEAN : ReclaimSelect(fail)
    \/ Alive /\ \E fail \in BOOLEAN : ReclaimCancelTicket(fail)
    \/ Alive /\ \E fail \in BOOLEAN : ReclaimReturnSpot(fail)
    \/ Alive /\ \E fail \in BOOLEAN : ReclaimCommit(fail)
    \/ Signal
    \/ ServerShutdown
    \/ DBClose
    \/ MainReturn
    \/ ProcessExit

MainSpec == TestInit /\ [][MainNext]_vars

\* ------------------------------------------- the worker over a sound store
\* the server keeps serving and the worker keeps ticking; no statement fails
ReclaimerNext ==
    \/ Tick
    \/ ret.op # "reclaim" /\ Return
    \/ \E p \in Procs, m \in Emails, k \in Keys : RegisterBeginTx(p, 1, m, k, FALSE)
    \/ \E p \in Procs : RegisterUpdateEvent(p, FALSE)
    \/ \E p \in Procs : RegisterInsertTicket(p, FALSE)
    \/ \E p \in Procs : RegisterCommit(p, FALSE)
    \/ \E id \in 1..MaxKeys, m \in Emails : ConfirmReservation(id, m, FALSE)
    \/ TickerFire
    \/ WorkerTick
    \/ WorkerReturn
    \/ workerPc = "call" /\ ReclaimBeginTx(FALSE)
    \/ ReclaimSelect(FALSE)
    \/ ReclaimCancelTicket(FALSE)
    \/ ReclaimReturnSpot(FALSE)
    \/ ReclaimCommit(FALSE)

\* Scheduling: the ticker keeps firing and the worker goroutine keeps running
\* (weak fairness of the tick and of the worker's steps); a call that holds
\* the connection goes on to its next statement and a handler takes the
\* result of its call; the worker's BeginTx, waiting for the connection
\* among the requests, gets it after finitely many releases.
ReclaimerFairness ==
    /\ WF_vars(TickerFire)
    /\ WF_vars(WorkerTick)
    /\ WF_vars(WorkerReturn)
    /\ SF_vars(workerPc = "call" /\ ReclaimBeginTx(FALSE))
    /\ WF_vars(ReclaimSelect(FALSE))
    /\ WF_vars(ReclaimCancelTicket(FALSE))
    /\ WF_vars(ReclaimReturnSpot(FALSE))
    /\ WF_vars(ReclaimCommit(FALSE))
    /\ WF_vars(ret.op # "reclaim" /\ Return)
    /\ WF_vars(\E p \in Procs : RegisterUpdateEvent(p, FALSE))
    /\ WF_vars(\E p \in Procs : RegisterInsertTicket(p, FALSE))
    /\ WF_vars(\E p \in Procs : RegisterCommit(p, FALSE))

ReclaimerSpec == TestInit /\ [][ReclaimerNext]_vars /\ ReclaimerFairness

\* ------------------------------------------------------------- properties
\* tickets of event e that hold a spot
Active(tks, e) ==
    Cardinality({t \in DOMAIN tks : tks[t].event_id = e /\ tks[t].status \in {Reserved, Confirmed}})

\* C1: in every reachable state, for every event, available_spots plus the
\* number of its reserved or confirmed tickets equals total_spots.
C1_LedgerExact ==
    \A e \in DOMAIN events :
        events[e].available_spots + Active(tickets, e) = events[e].total_spots

\* C2: when N >= C calls with distinct keys and emails have run concurrently
\* on an event of capacity C, exactly C returned a ticket id, exactly N-C
\* returned ErrSoldOut, none returned another error, available_spots is 0
\* and exactly C ticket rows exist for the event.
C2_ExactlyCapacitySucceed ==
    LET n == Cardinality(exited)
        c == events[1].total_spots
    IN  (Quiescent /\ n >= c) =>
            /\ successCount = c
            /\ soldOutCount = n - c
            /\ errorCount = 0
            /\ events[1].available_spots = 0
            /\ Cardinality({t \in DOMAIN tickets : tickets[t].event_id = 1}) = c

\* more callers than spots have all returned: the last spot was contended
C2_Witness ==
    /\ Quiescent
    /\ exited = Procs
    /\ Cardinality(exited) > events[1].total_spots
    /\ events[1].total_spots > 1
    /\ soldOutCount > 0

\* C3: in every reachable state, committed or inside the open transaction,
\* 0 <= available_spots <= total_spots for every event.
C3_CounterInRange ==
    /\ \A e \in DOMAIN events :
            0 <= events[e].available_spots /\ events[e].available_spots <= events[e].total_spots
    /\ \A e \in DOMAIN tx.events :
            0 <= tx.events[e].available_spots
                /\ tx.events[e].available_spots <= tx.events[e].total_spots

\* a reclaim cycle has returned the spot of a cancelled ticket and the
\* counter is back at total_spots, while another event is sold out
C3_Witness ==
    /\ \E t \in DOMAIN tickets :
            /\ tickets[t].status = Cancelled
            /\ released[t] = 1
            /\ events[tickets[t].event_id].available_spots
                    = events[tickets[t].event_id].total_spots
    /\ \E e \in DOMAIN events :
            events[e].total_spots > 0 /\ events[e].available_spots = 0

\* C4: after k >= 1 calls with the same event, email and idempotency key on
\* an event with at least one spot, there is exactly one ticket row, it has
\* that key, and available_spots is one below its value before the first
\* call, whatever k is.
C4_RetryIdempotent ==
    (Quiescent /\ Cardinality(exited) >= 1) =>
        /\ Len(tickets) = 1
        /\ tickets[1].idempotency_key = 1
        /\ tickets[1].user_email = 1
        /\ tickets[1].event_id = 1
        /\ tickets[1].status = Reserved
        /\ events[1].available_spots = events[1].total_spots - 1
        /\ successCount = 1

\* the request was repeated by every caller while a spot was still free
C4_Witness ==
    /\ Quiescent
    /\ exited = Procs
    /\ events[1].available_spots > 0
    /\ errorCount = Cardinality(Procs) - 1

\* C5: when the ticket insertion fails on a uniqueness violation, the call
\* returns ErrAlreadyRegistered and the committed events and tickets are
\* the ones from before the call (they do not change between BeginTx and
\* the return).
C5_DuplicateUndone ==
    [][\A p \in Procs :
        LET c == call[p]
            dup == \E t \in DOMAIN tx.tickets :
                        \/ tx.tickets[t].idempotency_key = c.key
                        \/ tx.tickets[t].event_id = c.eventID
                                /\ tx.tickets[t].user_email = c.email
        IN  /\ c.pc \in {"update", "insert"} => (events' = events /\ tickets' = tickets)
            /\ (c.pc = "insert" /\ dup /\ call'[p] # c) =>
                    /\ ret'.op = "register"
                    /\ ret'.proc = p
                    /\ ret'.res = ErrAlreadyRegistered
                    /\ call'[p].pc = "idle"
                    /\ tx' = NoTx
                    /\ conn' = Free]_vars

\* a call was turned down as a duplicate on an event that had a spot left
C5_Witness ==
    /\ ret.op = "register"
    /\ ret.res = ErrAlreadyRegistered
    /\ ret.eventID \in DOMAIN events
    /\ events[ret.eventID].available_spots > 0
    /\ \E t \in DOMAIN tickets :
            \/ tickets[t].idempotency_key = ret.key
            \/ tickets[t].event_id = ret.eventID /\ tickets[t].user_email = ret.email

\* C6: an expired reserved ticket is released exactly once: in every
\* reachable state a cancelled ticket has had its spot returned once, and no
\* other ticket has had a spot returned.
C6_ReleasedExactlyOnce ==
    \A t \in DOMAIN tickets :
        released[t] = (IF tickets[t].status = Cancelled THEN 1 ELSE 0)

\* C7: every step that cancels tickets of an event raises that event's
\* available_spots by the number of tickets it cancelled, and no step raises
\* it otherwise.
C7_CancelWithIncrement ==
    [][\A e \in DOMAIN events :
        LET d == events'[e].available_spots - events[e].available_spots
            c == Cardinality({t \in DOMAIN tickets :
                        /\ tickets[t].event_id = e
                        /\ tickets[t].status # Cancelled
                        /\ tickets'[t].status = Cancelled})
        IN  (c > 0 \/ d > 0) => d = c]_vars

\* C8: confirmed and cancelled are terminal: no step removes a ticket, and a
\* step that changes a ticket's status takes it from reserved to confirmed
\* or from reserved to cancelled.
C8_TerminalStates ==
    [][\A t \in DOMAIN tickets :
        /\ t \in DOMAIN tickets'
        /\ tickets'[t].status # tickets[t].status =>
                /\ tickets[t].status = Reserved
                /\ tickets'[t].status \in {Confirmed, Cancelled}]_vars

\* a reclaim cycle has committed while a confirmed ticket was past its
\* deadline and another ticket was already cancelled
C8_Witness ==
    /\ ret.op = "reclaim"
    /\ ret.res = Ok
    /\ \E t \in DOMAIN tickets : tickets[t].status = Confirmed /\ tickets[t].expires_at <= now
    /\ \E t \in DOMAIN tickets : tickets[t].status = Cancelled

\* C9: ConfirmReservation(ticketID, email) returns nil and sets the ticket to
\* confirmed if and only if, when the update runs, the ticket exists, its
\* user_email is email, its status is reserved and expires_at > now;
\* otherwise it returns an error and changes no ticket.
C9_ConfirmIff ==
    [][(ret = NoRet /\ ret'.op = "confirm") =>
        LET id == ret'.ticketID
            g == /\ id \in DOMAIN tickets
                 /\ tickets[id].user_email = ret'.email
                 /\ tickets[id].status = Reserved
                 /\ tickets[id].expires_at > now
        IN  /\ (ret'.res = Ok) <=> g
            /\ g => tickets' = [tickets EXCEPT ![id].status = Confirmed]
            /\ ~g => tickets' = tickets]_vars

\* a confirm by another email was turned down on a reserved ticket that had
\* not expired
C9_Witness ==
    /\ ret.op = "confirm"
    /\ ret.res # Ok
    /\ ret.ticketID \in DOMAIN tickets
    /\ tickets[ret.ticketID].status = Reserved
    /\ tickets[ret.ticketID].expires_at > now
    /\ tickets[ret.ticketID].user_email # ret.email

\* C10: a ConfirmReservation on a ticket that is already confirmed returns an
\* error, and no ConfirmReservation, the first one included, changes any
\* event.
C10_ConfirmOnce ==
    [][(ret = NoRet /\ ret'.op = "confirm") =>
        /\ events' = events
        /\ (ret'.ticketID \in DOMAIN tickets /\ tickets[ret'.ticketID].status = Confirmed) =>
                (ret'.res # Ok /\ tickets' = tickets)]_vars

\* the holder's second confirm, still before the deadline, was turned down
C10_Witness ==
    /\ ret.op = "confirm"
    /\ ret.res = ErrNotConfirmable
    /\ ret.ticketID \in DOMAIN tickets
    /\ tickets[ret.ticketID].status = Confirmed
    /\ tickets[ret.ticketID].user_email = ret.email
    /\ tickets[ret.ticketID].expires_at > now

\* C11: a ReclaimExpiredSeats cycle that commits leaves every ticket it
\* selected (reserved, never confirmed, past its deadline) cancelled and has
\* raised each event's available_spots by the number of its selected
\* tickets, which undoes the decrements of their registrations; and every
\* later ConfirmReservation on a cancelled ticket returns an error and
\* changes nothing.
C11_ExpiredHoldReturned ==
    [][/\ (rec.pc = "commit" /\ ret'.op = "reclaim" /\ ret'.res = Ok) =>
            /\ \A t \in rec.selected : tickets'[t].status = Cancelled
            /\ \A e \in DOMAIN events :
                    events'[e].available_spots = events[e].available_spots
                        + Cardinality({t \in rec.selected : tickets[t].event_id = e})
       /\ (ret = NoRet /\ ret'.op = "confirm" /\ ret'.ticketID \in DOMAIN tickets
                /\ tickets[ret'.ticketID].status = Cancelled) =>
            (ret'.res # Ok /\ tickets' = tickets /\ events' = events)]_vars

\* C12: in every reachable state, committed or inside the open transaction,
\* no (event, email) pair has two tickets that are reserved or confirmed.
C12_OneActivePerHolder ==
    /\ \A i, j \in DOMAIN tickets :
            (/\ i # j
             /\ tickets[i].event_id = tickets[j].event_id
             /\ tickets[i].user_email = tickets[j].user_email)
                => ~(/\ tickets[i].status \in {Reserved, Confirmed}
                     /\ tickets[j].status \in {Reserved, Confirmed})
    /\ \A i, j \in DOMAIN tx.tickets :
            (/\ i # j
             /\ tx.tickets[i].event_id = tx.tickets[j].event_id
             /\ tx.tickets[i].user_email = tx.tickets[j].user_email)
                => ~(/\ tx.tickets[i].status \in {Reserved, Confirmed}
                     /\ tx.tickets[j].status \in {Reserved, Confirmed})

\* an email that holds an active ticket on an event asked for a second one
\* with a key no ticket has, while the event had a spot left, and was
\* turned down
C12_Witness ==
    /\ ret.op = "register"
    /\ ret.res = ErrAlreadyRegistered
    /\ ret.eventID \in DOMAIN events
    /\ events[ret.eventID].available_spots > 0
    /\ \A t \in DOMAIN tickets : tickets[t].idempotency_key # ret.key
    /\ \E t \in DOMAIN tickets :
            /\ tickets[t].event_id = ret.eventID
            /\ tickets[t].user_email = ret.email
            /\ tickets[t].status \in {Reserved, Confirmed}

\* C13: a RegisterForEvent call returns ErrAlreadyRegistered only when a
\* ticket with its idempotency key exists or its email has a reserved or
\* confirmed ticket on its event.
C13_AlreadyRegisteredOnlyIfDuplicate ==
    [][(ret = NoRet /\ ret'.op = "register" /\ ret'.res = ErrAlreadyRegistered) =>
        \E t \in DOMAIN tickets :
            \/ tickets[t].idempotency_key = ret'.key
            \/ /\ tickets[t].event_id = ret'.eventID
               /\ tickets[t].user_email = ret'.email
               /\ tickets[t].status \in {Reserved, Confirmed}]_vars

\* C14: no two tickets ever share an idempotency key, and a RegisterForEvent
\* call whose key some ticket already has, on whatever event, changes
\* neither the tickets nor any event and does not return a ticket id.
C14_KeyUniqueEverywhere ==
    [][/\ \A i, j \in DOMAIN tickets' :
            i # j => tickets'[i].idempotency_key # tickets'[j].idempotency_key
       /\ \A p \in Procs :
            (/\ call[p].pc # "idle"
             /\ \E t \in DOMAIN tickets : tickets[t].idempotency_key = call[p].key)
                => /\ tickets' = tickets
                   /\ events' = events
                   /\ call'[p].pc = "idle" => (ret'.proc = p /\ ret'.res # Ok)]_vars

\* a call reused the key of a ticket on another event, for an email with no
\* ticket on its own event, while that event had a spot left, and was
\* turned down
C14_Witness ==
    /\ ret.op = "register"
    /\ ret.res = ErrAlreadyRegistered
    /\ ret.eventID \in DOMAIN events
    /\ events[ret.eventID].available_spots > 0
    /\ \E t \in DOMAIN tickets :
            tickets[t].idempotency_key = ret.key /\ tickets[t].event_id # ret.eventID
    /\ \A t \in DOMAIN tickets :
            ~(tickets[t].event_id = ret.eventID /\ tickets[t].user_email = ret.email)

C16_CandidatesIndependent ==
    [][(rec.pc = "commit" /\ ret'.op = "reclaim" /\ ret'.res = Ok) =>
        LET done == rec.selected \ rec.failed
        IN  /\ \A t \in done :
                    /\ tickets[t].status = Reserved
                    /\ tickets'[t].status = Cancelled
                    /\ released'[t] = released[t] + 1
            /\ \A e \in DOMAIN events :
                    events'[e].available_spots = events[e].available_spots
                        + Cardinality({t \in done : tickets[t].event_id = e})
            /\ ret'.val = Cardinality(done)]_vars

\* a cycle has committed in which a statement failed for one candidate and
\* a candidate that came after it was cancelled and its spot returned
C16_Witness ==
    /\ ret.op = "reclaim"
    /\ ret.res = Ok
    /\ \E f \in ret.failed : \E t \in ret.selected \ ret.failed :
            /\ f < t
            /\ tickets[t].status = Cancelled
            /\ released[t] = 1
            /\ events[tickets[t].event_id].available_spots > 0

\* C17: once main has received the shutdown signal, the worker starts no
\* new ReclaimExpiredSeats cycle.
C17_NoCycleAfterSignal ==
    [][mainPc # "serving" => cycles' <= cycles]_vars

\* C18: a cycle that held its transaction when the signal came has returned
\* before db.Close() runs and before the process ends; in particular the
\* process does not end between a candidate's status update and its
\* capacity increment.
C18_CycleCompletesBeforeClose ==
    atSignal => (~dbClosed /\ mainPc # "exited")

\* C19: at most one ReclaimExpiredSeats call is in progress, the worker is
\* inside it for as long as it is, and a cycle is called only from the
\* select statement, to which the worker comes back when the previous call
\* has returned.
C19_NoOverlap ==
    /\ cycles \in {0, 1}
    /\ cycles = 1 <=> workerPc = "call"
    /\ cycles = 0 => (rec = RecIdle /\ conn # Reclaimer /\ ret.op # "reclaim")

\* a tick is waiting in ticker.C while the cycle is between the two updates
\* of its second candidate: the cycle has outlasted the tick interval
C19_Witness ==
    /\ tickerC = 1
    /\ cycles = 1
    /\ rec.pc = "incr"
    /\ Len(rec.expired) = 1
    /\ Cardinality(rec.selected) = 2

\* C20: while a RegisterForEvent call is in progress and in the step in
\* which it returns an error, the committed events and tickets do not
\* change; only the step in which it returns a ticket id changes them. An
\* error return leaves no open transaction.
C20_RegisterAllOrNothing ==
    [][\A p \in Procs :
        LET returns == ret = NoRet /\ ret'.op = "register" /\ ret'.proc = p
        IN  /\ (call[p].pc # "idle" /\ ~(returns /\ ret'.res = Ok)) =>
                    (events' = events /\ tickets' = tickets)
            /\ (returns /\ ret'.res # Ok) =>
                    /\ events' = events
                    /\ tickets' = tickets
                    /\ tx' = NoTx
                    /\ conn' = Free
                    /\ call'[p].pc = "idle"]_vars

\* a call whose commit failed has returned: the event still has the spot
\* the call had taken and no ticket has the call's key
C20_Witness ==
    /\ ret.op = "register"
    /\ ret.res = ErrCommit
    /\ events[ret.eventID].available_spots = events[ret.eventID].total_spots
    /\ \A t \in DOMAIN tickets : tickets[t].idempotency_key # ret.key
    /\ tx = NoTx

\* C21: the handlers answer ErrSoldOut, ErrAlreadyRegistered and a failed
\* confirm guard with 409, and a failure of a store statement during
\* RegisterForEvent or ConfirmReservation with 500, never with 409 and
\* never as ErrAlreadyRegistered.
C21_BusinessAndStoreErrorsApart ==
    [][/\ (ret = NoRet /\ ret'.op = "register") =>
            LET c == call[ret'.proc]
                dup == \E t \in DOMAIN tx.tickets :
                            \/ tx.tickets[t].idempotency_key = c.key
                            \/ tx.tickets[t].event_id = c.eventID
                                    /\ tx.tickets[t].user_email = c.email
                storeFailed == \/ ret'.res \in {ErrStore, ErrCommit}
                               \/ c.pc = "insert" /\ ~dup /\ ret'.res # Ok
            IN  /\ (~storeFailed /\ ret'.res \in {ErrSoldOut, ErrAlreadyRegistered}) =>
                        HandleRegisterStatus(ret'.res) = StatusConflict
                /\ storeFailed =>
                        /\ HandleRegisterStatus(ret'.res) = StatusInternalServerError
                        /\ ret'.res # ErrAlreadyRegistered
       /\ (ret = NoRet /\ ret'.op = "confirm") =>
            /\ ret'.res = ErrNotConfirmable => HandleConfirmStatus(ret'.res) = StatusConflict
            /\ ret'.res = ErrStore =>
                    HandleConfirmStatus(ret'.res) = StatusInternalServerError]_vars

C23_FivePerTenSeconds ==
    /\ \A ip \in IPs :
            Len(SelectSeq(passed[ip], LAMBDA x : x > clock - RateWindow)) <= RateLimit
    /\ resp.status = StatusTooManyRequests => resp.handler = "none"

\* C24: POST /events reaches HandleCreateEvent only with X-Role organizer,
\* the register and confirm routes reach their handlers only with X-Role
\* user, and a request to one of these routes with any other role is
\* answered 403 and reaches no handler.
C24_RoleDecidesHandler ==
    LET required == CASE resp.route = RouteCreateEvent -> RoleOrganizer
                      [] resp.route \in {RouteRegister, RouteConfirm} -> RoleUser
                      [] OTHER -> RoleNone
    IN  (resp.route \in {RouteCreateEvent, RouteRegister, RouteConfirm}
            /\ resp.status # StatusTooManyRequests) =>
            /\ resp.handler # "none" => resp.role = required
            /\ resp.role # required =>
                    resp.status = StatusForbidden /\ resp.handler = "none"

\* C25: no deadlock on the single connection: every issued RegisterForEvent
\* call eventually returns, a ReclaimExpiredSeats cycle that has begun
\* eventually returns, the connection once taken is eventually released,
\* and whenever no call is in progress the connection is free and no
\* transaction is open, whichever return path each call took.
C25_AllCallsReturn ==
    /\ <>[](exited = Procs)
    /\ (rec.pc # "wait") ~> (rec.pc = "wait")
    /\ (conn # Free) ~> (conn = Free)
    /\ []((rec.pc = "wait" /\ \A p \in Procs : call[p].pc = "idle")
            => (conn = Free /\ tx = NoTx))

\* all goroutines have returned, some with a ticket and some through an
\* early error return, and the connection is back in the pool
C25_Witness ==
    /\ exited = Procs
    /\ successCount > 0
    /\ errorCount > 0
    /\ soldOutCount > 0
    /\ conn = Free

\* C26: while the worker keeps ticking and no statement fails, every ticket
\* that is reserved and past its expires_at is eventually cancelled with its
\* spot returned to the event's available_spots.
C26_ExpiredEventuallyReclaimed ==
    \A t \in 1..MaxKeys :
        (IF t \in DOMAIN tickets
            THEN tickets[t].status = Reserved /\ tickets[t].expires_at <= now
            ELSE FALSE)
        ~> (IF t \in DOMAIN tickets
              THEN tickets[t].status = Cancelled /\ released[t] = 1
              ELSE FALSE)

\* a cycle has committed: an expired hold is cancelled and its spot is back
C26_Witness ==
    /\ ret.op = "reclaim"
    /\ ret.val > 0
    /\ \E t \in DOMAIN tickets :
            /\ tickets[t].status = Cancelled
            /\ tickets[t].expires_at <= now
            /\ released[t] = 1
            /\ events[tickets[t].event_id].available_spots > 0

\* C27: a ticket row is created only by RegisterForEvent, with status
\* reserved and expires_at = time of the insert + 5 minutes, and it is
\* committed in one step with the decrement of its event's available_spots;
\* no step changes the expires_at, event_id, user_email or idempotency_key
\* of an existing ticket, and no step deletes a ticket.
C27_TicketFrame ==
    [][/\ \A t \in DOMAIN tickets :
            /\ t \in DOMAIN tickets'
            /\ tickets'[t].expires_at = tickets[t].expires_at
            /\ tickets'[t].event_id = tickets[t].event_id
            /\ tickets'[t].user_email = tickets[t].user_email
            /\ tickets'[t].idempotency_key = tickets[t].idempotency_key
       /\ (conn \in Procs /\ conn' = conn /\ Len(tx'.tickets) # Len(tx.tickets)) =>
            LET n == Len(tx'.tickets)
            IN  /\ n = Len(tx.tickets) + 1
                /\ tx'.tickets[n].status = Reserved
                /\ tx'.tickets[n].expires_at = now + HoldDuration
       /\ Len(tickets') # Len(tickets) =>
            LET n == Len(tickets')
            IN  /\ n = Len(tickets) + 1
                /\ conn \in Procs
                /\ ret' = RegisterRet(conn, call[conn], Ok)
                /\ ret'.ticketID = n
                /\ tickets'[n] = tx.tickets[n]
                /\ tickets'[n].status = Reserved
                /\ events'[tickets'[n].event_id].available_spots
                        = events[tickets'[n].event_id].available_spots - 1]_vars

\* a registration has just committed a ticket whose hold ends 5 minutes
\* from now, beside an older ticket that a reclaim cycle has cancelled
C27_Witness ==
    /\ ret.op = "register"
    /\ ret.res = Ok
    /\ now > 0
    /\ tickets[ret.ticketID].expires_at = now + HoldDuration
    /\ \E t \in DOMAIN tickets : tickets[t].status = Cancelled /\ released[t] = 1

\* C28: no step changes the total_spots of an existing event, neither in
\* the committed table nor inside the open transaction, and no step removes
\* an event; a new event starts with available_spots = total_spots and no
\* ticket.
C28_TotalSpotsFixed ==
    [][/\ \A e \in DOMAIN events :
            /\ e \in DOMAIN events'
            /\ events'[e].total_spots = events[e].total_spots
       /\ \A e \in DOMAIN tx'.events :
            e \in DOMAIN events' /\ tx'.events[e].total_spots = events'[e].total_spots
       /\ Len(events') # Len(events) =>
            LET n == Len(events')
            IN  /\ n = Len(events) + 1
                /\ events'[n].available_spots = events'[n].total_spots
                /\ \A t \in DOMAIN tickets' : tickets'[t].event_id # n]_vars

\* an event has been registered on, confirmed on and reclaimed from, and it
\* still has its two spots; a second event has been created beside it
C28_Witness ==
    /\ Len(events) = 2
    /\ \E e \in DOMAIN events :
            /\ events[e].total_spots = 2
            /\ \E t \in DOMAIN tickets :
                    tickets[t].event_id = e /\ tickets[t].status = Confirmed
            /\ \E t \in DOMAIN tickets :
                    /\ tickets[t].event_id = e
                    /\ tickets[t].status = Cancelled
                    /\ released[t] = 1

\* C29: over a store that does not fail, a RegisterForEvent call for an
\* event id that does not exist returns ErrSoldOut, the result of a sold-out
\* event, which HandleRegister answers with 409; it returns no ticket id,
\* its transaction has changed nothing, and it leaves the events and the
\* tickets as they were.
C29_MissingEventIsSoldOut ==
    [][(ret = NoRet /\ ret'.op = "register" /\ ret'.eventID \notin DOMAIN events) =>
            /\ ret'.res = ErrSoldOut
            /\ HandleRegisterStatus(ret'.res) = StatusConflict
            /\ ret'.ticketID = 0
            /\ tx.events = events
            /\ tx.tickets = tickets
            /\ events' = events
            /\ tickets' = tickets]_vars

\* a call for an event id that no event has yet has returned ErrSoldOut
\* while another event has free spots
C29_Witness ==
    /\ ret.op = "register"
    /\ ret.eventID \notin DOMAIN events
    /\ ret.res = ErrSoldOut
    /\ \E e \in DOMAIN events : events[e].available_spots > 0

\* C30: over a store that does not fail, a RegisterForEvent call on an
\* event whose available_spots is 0 returns ErrSoldOut, also when its key or
\* its email duplicates an existing ticket; ErrAlreadyRegistered is returned,
\* and the insert is reached, only when available_spots was above 0.
C30_SoldOutBeforeDuplicate ==
    /\ (ret.op = "register" /\ ret.eventID \in DOMAIN events) =>
            /\ (ret.res # Ok /\ events[ret.eventID].available_spots = 0) => ret.res = ErrSoldOut
            /\ ret.res = ErrAlreadyRegistered => events[ret.eventID].available_spots > 0
            /\ ret.res = ErrSoldOut => events[ret.eventID].available_spots = 0
    /\ \A p \in Procs :
            call[p].pc \in {"insert", "commit"} =>
                /\ call[p].eventID \in DOMAIN events
                /\ events[call[p].eventID].available_spots > 0

\* the retry of a registered request, same event, email and key, on the now
\* sold-out event has returned ErrSoldOut
C30_Witness ==
    /\ ret.op = "register"
    /\ ret.res = ErrSoldOut
    /\ ret.eventID \in DOMAIN events
    /\ events[ret.eventID].total_spots > 0
    /\ \E t \in DOMAIN tickets :
            /\ tickets[t].event_id = ret.eventID
            /\ tickets[t].user_email = ret.email
            /\ tickets[t].idempotency_key = ret.key
            /\ tickets[t].status \in {Reserved, Confirmed}

\* C31: for a reserved ticket and any instant, exactly one of the two holds:
\* the guard of ConfirmReservation by its owner, or the condition of the
\* reclaimer's scan; no candidate of a reclaim cycle is a confirmed ticket;
\* and a ConfirmReservation on a reserved ticket that is past its
\* expires_at returns an error and leaves the ticket reserved.
C31_ConfirmOrReclaim ==
    /\ [](/\ \A id \in DOMAIN tickets : \A t \in 0..(MaxTime + HoldDuration) :
                tickets[id].status = Reserved =>
                    (ConfirmGuard(tickets, id, tickets[id].user_email, t)
                        # IsExpiredReserved(tickets[id], t))
          /\ \A c \in rec.selected :
                /\ tickets[c].status = Reserved
                /\ tickets[c].expires_at <= now
          /\ (ret.op = "confirm" /\ ret.res = Ok) =>
                /\ tickets[ret.ticketID].status = Confirmed
                /\ tickets[ret.ticketID].expires_at > now)
    /\ [][(ret = NoRet /\ ret'.op = "confirm" /\ ret'.ticketID \in DOMAIN tickets) =>
            LET k == ret'.ticketID
            IN  (tickets[k].status = Reserved /\ tickets[k].expires_at <= now) =>
                    /\ ret'.res # Ok
                    /\ tickets' = tickets]_vars

\* the owner's ConfirmReservation came at the deadline of a hold that no
\* reclaim cycle has taken yet: it was turned down and the ticket is reserved
C31_Witness ==
    /\ ret.op = "confirm"
    /\ ret.res = ErrNotConfirmable
    /\ ret.ticketID \in DOMAIN tickets
    /\ tickets[ret.ticketID].user_email = ret.email
    /\ tickets[ret.ticketID].status = Reserved
    /\ tickets[ret.ticketID].expires_at = now

\* C32: a reclaim cycle selects only tickets whose expires_at is <= the
\* time of its scan, it cancels only tickets it selected, and a step that
\* makes a ticket cancelled finds it reserved and past its expires_at; a
\* reserved ticket whose expires_at is in the future is left as it is, with
\* its spot, by every cycle.
C32_NoEarlyCancel ==
    [][/\ (rec.pc = "select" /\ rec'.pc \in {"cancel", "commit"}) =>
            \A c \in rec'.selected :
                tx.tickets[c].status = Reserved /\ tx.tickets[c].expires_at <= now
       /\ (conn = Reclaimer /\ conn' = Reclaimer /\ rec.pc # "select") =>
            \A c \in DOMAIN tx.tickets :
                (tx.tickets[c].status # Cancelled /\ tx'.tickets[c].status = Cancelled) =>
                    /\ c \in rec.selected
                    /\ tx.tickets[c].status = Reserved
                    /\ tx.tickets[c].expires_at <= now
       /\ \A c \in DOMAIN tickets :
            /\ (tickets[c].status # Cancelled /\ tickets'[c].status = Cancelled) =>
                    /\ conn = Reclaimer
                    /\ c \in rec.selected
                    /\ tickets[c].status = Reserved
                    /\ tickets[c].expires_at <= now
            /\ (conn = Reclaimer /\ tickets[c].status = Reserved
                    /\ tickets[c].expires_at > now) =>
                    /\ tickets'[c] = tickets[c]
                    /\ released'[c] = released[c]]_vars

\* a cycle has cancelled an expired hold and returned its spot while a
\* younger hold on the same event is still reserved
C32_Witness ==
    /\ ret.op = "reclaim"
    /\ ret.res = Ok
    /\ ret.val > 0
    /\ \E c \in DOMAIN tickets : \E d \in DOMAIN tickets :
            /\ tickets[c].status = Cancelled
            /\ released[c] = 1
            /\ tickets[d].event_id = tickets[c].event_id
            /\ tickets[d].status = Reserved
            /\ tickets[d].expires_at > now

\* C33: a ConfirmReservation call, whether it returns nil or an error,
\* leaves every event as it was, creates and removes no ticket, and changes
\* at most the status of the ticket it names; and a confirmed ticket stays
\* confirmed in every later step, with no capacity increment ever made for it.
C33_ConfirmFrame ==
    /\ [](\A c \in DOMAIN tickets : tickets[c].status = Confirmed => released[c] = 0)
    /\ [][/\ (ret = NoRet /\ ret'.op = "confirm") =>
                /\ events' = events
                /\ released' = released
                /\ DOMAIN tickets' = DOMAIN tickets
                /\ \A c \in DOMAIN tickets :
                        /\ c # ret'.ticketID => tickets'[c] = tickets[c]
                        /\ tickets'[c] = [tickets[c] EXCEPT !.status = tickets'[c].status]
                /\ ret'.res # Ok => tickets' = tickets
          /\ \A c \in DOMAIN tickets :
                tickets[c].status = Confirmed =>
                    /\ tickets'[c].status = Confirmed
                    /\ released'[c] = 0
          /\ \A c \in DOMAIN tx.tickets :
                (tx.tickets[c].status = Confirmed /\ c \in DOMAIN tx'.tickets) =>
                    tx'.tickets[c].status = Confirmed]_vars

\* a ticket was confirmed, its deadline has passed and a reclaim cycle has
\* committed since: the ticket is confirmed and its event is still sold out
C33_Witness ==
    /\ ret.op = "reclaim"
    /\ ret.res = Ok
    /\ \E c \in DOMAIN tickets :
            /\ tickets[c].status = Confirmed
            /\ tickets[c].expires_at <= now
            /\ released[c] = 0
            /\ events[tickets[c].event_id].available_spots = 0

\* C34: a committed RegisterForEvent on event e changes the counter of e
\* alone and no ticket that exists; a committed ReclaimExpiredSeats cycle
\* raises the available_spots of each event by exactly the number of that
\* event's tickets it has cancelled.
C34_EventsIndependent ==
    [][/\ (ret = NoRet /\ ret'.op = "register") =>
            /\ \A e \in DOMAIN events :
                    e # ret'.eventID => events'[e] = events[e]
            /\ \A c \in DOMAIN tickets : tickets'[c] = tickets[c]
            /\ \A c \in DOMAIN tickets' \ DOMAIN tickets :
                    tickets'[c].event_id = ret'.eventID
       /\ (conn = Reclaimer /\ conn' = Free) =>
            \A e \in DOMAIN events :
                events'[e].available_spots = events[e].available_spots
                    + Cardinality({c \in DOMAIN tickets :
                            /\ tickets[c].event_id = e
                            /\ tickets[c].status # Cancelled
                            /\ tickets'[c].status = Cancelled})]_vars

\* C35: when ReclaimExpiredSeats returns without error, its count is the
\* number of tickets the cycle has moved from reserved to cancelled in the
\* committed tables and the total increase of available_spots over all
\* events; a cycle that selected no ticket returns 0 and leaves the tables
\* as they were; a cycle that returns an error leaves the tables as they
\* were.
C35_CountIsDurable ==
    [][(ret = NoRet /\ ret'.op = "reclaim") =>
        LET moved == {c \in DOMAIN tickets :
                        /\ tickets[c].status = Reserved
                        /\ tickets'[c].status = Cancelled}
            gained == UNION {{<<e, k>> : k \in (events[e].available_spots + 1)
                                                ..events'[e].available_spots}
                                : e \in DOMAIN events}
        IN  /\ ret'.res = Ok =>
                    /\ ret'.val = Cardinality(moved)
                    /\ ret'.val = Cardinality(gained)
            /\ (ret'.res = Ok /\ rec.selected = {}) =>
                    /\ ret'.val = 0
                    /\ UNCHANGED store
            /\ ret'.res # Ok => UNCHANGED store]_vars

====
